---- MODULE Spec2Model ----
(***************************************************************************)
(* createFargateDeployment (src/src/createFargateDeployment.ts) as a state *)
(* machine.  One invocation is a straight line of sixteen statements:      *)
(* fourteen resource constructions, one dependsOn call and the return.     *)
(* Several invocations are modelled side by side, each with its own        *)
(* arguments and its own local variables, and their statements interleave  *)
(* freely.                                                                 *)
(***************************************************************************)
EXTENDS Integers, Sequences, FiniteSets, TLC

\* ------------------------------------------------------------------ bounds
NCalls == 2
MaxDesiredCount == 2

Calls == 1..NCalls

\* --------------------------------------------------------------- constants
DefaultDesiredCount == 2
ListenerPort == 443
HealthCheckIntervalSeconds == 10
HealthCheckTimeoutSeconds == 5
HealthyThresholdCount == 2
UnhealthyThresholdCount == 2
MaximumPercent == 200
MinimumHealthyPercent == 75

VARIABLES
  pc,       \* pc[c]: the statement invocation c executes next
  name,     \* name[c]: the first argument of invocation c
  options,  \* options[c]: the second argument; an omitted field is absent
  locals,   \* locals[c]: the const bindings made so far, role -> resource
  built,    \* built[c]: the roles in the order their resources were made
  refLog,   \* every getRef / getAttribute / dependsOn call made so far
  result    \* result[c]: the record returned, <<>> until the return

vars == <<pc, name, options, locals, built, refLog, result>>

\* ------------------------------------------------------------------ inputs
EmptyRecord == [k \in {} |-> k]

Prefixes == {"Api", "Web"}
Ports == {80, 8080}

\* The fields every caller must supply (FargateDeploymentOptions).
RequiredOptions(port) ==
  [ ServiceName    |-> "api",
    ImageUrl       |-> "example/api:latest",
    ContainerPort  |-> port,
    VpcId          |-> "vpc-1",
    PrivateSubnets |-> <<"subnet-a">>,
    PublicSubnets  |-> <<"subnet-b">>,
    DomainName     |-> "api.example.com",
    ZoneName       |-> "example.com.",
    Stage          |-> "prod",
    CertificateArn |-> "arn:cert:1" ]

\* An optional field: omitted, or present with one of vals.
Optional(k, vals) == {EmptyRecord} \cup {k :> v : v \in vals}

FargateDeploymentOptions ==
  { RequiredOptions(port) @@ dc @@ hc @@ ci @@ po :
      port \in Ports,
      dc \in Optional("DesiredCount", 0..MaxDesiredCount),
      hc \in Optional("HealthCheckUrl", {"", "/health"}),
      ci \in Optional("EnableContainerInsights", BOOLEAN),
      po \in Optional("Policies", {<<"policy-a">>}) }

\* The options of invocations that run side by side.
BareOptions == RequiredOptions(8080)
FullOptions ==
  RequiredOptions(8080) @@ [ DesiredCount |-> MaxDesiredCount,
                             HealthCheckUrl |-> "/health",
                             EnableContainerInsights |-> TRUE ]

\* ------------------------------------------------- JavaScript's semantics
Has(o, k) == k \in DOMAIN o

\* `o[k] || d` for a number: undefined and 0 are falsy.
OrNumber(o, k, d) == IF Has(o, k) /\ o[k] # 0 THEN o[k] ELSE d

\* `o[k] || d` for a string: undefined and "" are falsy.
OrString(o, k, d) == IF Has(o, k) /\ o[k] # "" THEN o[k] ELSE d

\* `o[k] ? ... : ...` for a boolean: undefined and false are falsy.
TruthyBoolean(o, k) == Has(o, k) /\ o[k]

\* { k: o[k] }: a property whose value is undefined is not rendered.
Pick(o, k) == IF Has(o, k) THEN k :> o[k] ELSE EmptyRecord

\* ------------------------------------------------ the typed-template library
\* create<Kind>(logicalName, propertyBag) -> ResourceDescription
Resource(type, n, props) ==
  [ Name |-> n, Type |-> type, Properties |-> props, DependsOn |-> <<>> ]

createECSCluster(n, p) == Resource("AWS::ECS::Cluster", n, p)
createEC2SecurityGroup(n, p) == Resource("AWS::EC2::SecurityGroup", n, p)
createEC2SecurityGroupIngress(n, p) ==
  Resource("AWS::EC2::SecurityGroupIngress", n, p)
createElasticLoadBalancingV2LoadBalancer(n, p) ==
  Resource("AWS::ElasticLoadBalancingV2::LoadBalancer", n, p)
createLogsLogGroup(n, p) == Resource("AWS::Logs::LogGroup", n, p)
createElasticLoadBalancingV2TargetGroup(n, p) ==
  Resource("AWS::ElasticLoadBalancingV2::TargetGroup", n, p)
createElasticLoadBalancingV2Listener(n, p) ==
  Resource("AWS::ElasticLoadBalancingV2::Listener", n, p)
createECSService(n, p) == Resource("AWS::ECS::Service", n, p)
createRoute53RecordSet(n, p) == Resource("AWS::Route53::RecordSet", n, p)

\* The three sibling composers of this repository.
createFargateExecutionRole(n) == Resource("AWS::IAM::Role", n, EmptyRecord)
createECSTaskRole(n, p) == Resource("AWS::IAM::Role", n, p)
createFargateTaskDefinition(n, p) == Resource("AWS::ECS::TaskDefinition", n, p)

getRef(r) == [ Ref |-> r.Name ]
getAttribute(r, attr) == [ GetAtt |-> <<r.Name, attr>> ]
dependsOn(r, dep) == [ r EXCEPT !.DependsOn = Append(@, dep.Name) ]

\* --------------------------------------------------------- local bindings
\* Reading a const binding.  The source reads a binding only after its
\* declaration; a read before it does not yield a resource.
Undefined == Resource("undefined", "undefined", EmptyRecord)
Local(c, role) ==
  IF role \in DOMAIN locals[c] THEN locals[c][role] ELSE Undefined

\* A reference expression of the source is <<kind, local, attribute>>:
\* getRef(local) or getAttribute(local, attribute).
Ref(role) == <<"Ref", role, "">>
Att(role, attr) == <<"GetAtt", role, attr>>
Resolve(c, e) ==
  IF e[1] = "Ref" THEN getRef(Local(c, e[2]))
                  ELSE getAttribute(Local(c, e[2]), e[3])

\* The log entry of one reference expression evaluated by invocation c
\* while it builds `holder`.
Logged(c, holder, field, e) ==
  [ call |-> c, kind |-> e[1], holder |-> holder, field |-> field,
    target |-> <<c, e[2]>>, attr |-> e[3], at |-> Len(built[c]) ]
LogOf(c, holder, refs) ==
  { Logged(c, holder, k, refs[k]) : k \in DOMAIN refs }

\* ------------------------------------------------ the sixteen statements
\* Mutant: the flag tested for presence, not for truth.
cluster_whenSupplied(c) ==
  createECSCluster(
    name[c] \o "Cluster",
    IF Has(options[c], "EnableContainerInsights")
      THEN [ ClusterSettings |->
               << [ Name |-> "containerInsights", Value |-> "enabled" ] >> ]
      ELSE EmptyRecord)

\* const cluster = createECSCluster(...)
cluster(c) ==
  createECSCluster(
    name[c] \o "Cluster",
    IF TruthyBoolean(options[c], "EnableContainerInsights")
      THEN [ ClusterSettings |->
               << [ Name |-> "containerInsights", Value |-> "enabled" ] >> ]
      ELSE EmptyRecord)

\* const containerSecurityGroup = createEC2SecurityGroup(...)
containerSecurityGroup(c) ==
  createEC2SecurityGroup(
    name[c] \o "ContainerSecurityGroup",
    [ GroupDescription |-> "Access to the Fargate containers",
      VpcId |-> options[c].VpcId ])

\* const loadBalancerSecurityGroup = createEC2SecurityGroup(...)
loadBalancerSecurityGroup(c) ==
  createEC2SecurityGroup(
    name[c] \o "LoadBalancerSecurityGroup",
    [ GroupDescription |-> "Access to the public facing load balancer",
      VpcId |-> options[c].VpcId,
      SecurityGroupIngress |->
        << [ CidrIp |-> "0.0.0.0/0", IpProtocol |-> "-1" ] >> ])

\* Mutant: the ALB ingress takes its source from a binding declared later.
albIngressRefs_forward ==
  [ GroupId |-> Ref("containerSecurityGroup"),
    SourceSecurityGroupId |-> Ref("loadBalancer") ]

\* const albIngress = createEC2SecurityGroupIngress(...)
albIngressRefs ==
  [ GroupId |-> Ref("containerSecurityGroup"),
    SourceSecurityGroupId |-> Ref("loadBalancerSecurityGroup") ]
albIngress(c) ==
  createEC2SecurityGroupIngress(
    name[c] \o "ALBIngress",
    [ Description |-> "Ingress from the public ALB",
      GroupId |-> Resolve(c, albIngressRefs.GroupId),
      IpProtocol |-> "-1",
      SourceSecurityGroupId |->
        Resolve(c, albIngressRefs.SourceSecurityGroupId) ])

\* Mutant: the self ingress copies the ALB ingress's source.
selfIngressRefs_fromAlb ==
  [ GroupId |-> Ref("containerSecurityGroup"),
    SourceSecurityGroupId |-> Ref("loadBalancerSecurityGroup") ]

\* const selfIngress = createEC2SecurityGroupIngress(...)
selfIngressRefs ==
  [ GroupId |-> Ref("containerSecurityGroup"),
    SourceSecurityGroupId |-> Ref("containerSecurityGroup") ]
selfIngress(c) ==
  createEC2SecurityGroupIngress(
    name[c] \o "SelfIngress",
    [ Description |->
        "Ingress from other containers in the same security group",
      GroupId |-> Resolve(c, selfIngressRefs.GroupId),
      IpProtocol |-> "-1",
      SourceSecurityGroupId |->
        Resolve(c, selfIngressRefs.SourceSecurityGroupId) ])

\* const loadBalancer = createElasticLoadBalancingV2LoadBalancer(...)
loadBalancerRefs == [ SecurityGroups |-> Ref("loadBalancerSecurityGroup") ]
loadBalancer(c) ==
  createElasticLoadBalancingV2LoadBalancer(
    name[c] \o "LoadBalancer",
    [ Scheme |-> "internet-facing",
      LoadBalancerAttributes |->
        << [ Key |-> "idle_timeout.timeout_seconds", Value |-> "30" ] >>,
      Subnets |-> options[c].PublicSubnets,
      SecurityGroups |-> << Resolve(c, loadBalancerRefs.SecurityGroups) >> ])

\* Mutant: the execution role is given the task role's logical name.
executionRole_asTaskRole(c) == createFargateExecutionRole(name[c] \o "TaskRole")

\* const executionRole = createFargateExecutionRole(...)
executionRole(c) == createFargateExecutionRole(name[c] \o "ExecutionRole")

\* const taskRole = createECSTaskRole(...)
taskRole(c) ==
  createECSTaskRole(name[c] \o "TaskRole", Pick(options[c], "Policies"))

\* Mutant: the log group is named after its logical id.
logGroup_prefixed(c) ==
  createLogsLogGroup(name[c] \o "LogGroup",
                     [ LogGroupName |-> name[c] \o "LogGroup" ])

\* const logGroup = createLogsLogGroup(...)
logGroup(c) ==
  createLogsLogGroup(name[c] \o "LogGroup", [ LogGroupName |-> name[c] ])

\* Mutant: the task definition's logical name counts the invocations that
\* have got as far, as a module-level counter would.
task_counted(c) ==
  createFargateTaskDefinition(
    name[c] \o "Task"
      \o (IF \E d \in Calls \ {c} : "task" \in DOMAIN locals[d]
            THEN "2" ELSE ""),
    [ ExecutionRoleArn |-> getAttribute(Local(c, "executionRole"), "Arn"),
      TaskRoleArn |-> getAttribute(Local(c, "taskRole"), "Arn"),
      LogGroup |-> getRef(Local(c, "logGroup")) ] @@ options[c])

\* const task = createFargateTaskDefinition(...)
taskRefs ==
  [ ExecutionRoleArn |-> Att("executionRole", "Arn"),
    TaskRoleArn |-> Att("taskRole", "Arn"),
    LogGroup |-> Ref("logGroup") ]
task(c) ==
  createFargateTaskDefinition(
    name[c] \o "Task",
    [ ExecutionRoleArn |-> Resolve(c, taskRefs.ExecutionRoleArn),
      TaskRoleArn |-> Resolve(c, taskRefs.TaskRoleArn),
      LogGroup |-> Resolve(c, taskRefs.LogGroup) ] @@ options[c])

\* const targetGroup = createElasticLoadBalancingV2TargetGroup(...)
targetGroup(c) ==
  createElasticLoadBalancingV2TargetGroup(
    name[c] \o "TargetGroup",
    [ HealthCheckIntervalSeconds |-> HealthCheckIntervalSeconds,
      HealthCheckPath |-> OrString(options[c], "HealthCheckUrl", "/"),
      HealthCheckProtocol |-> "HTTP",
      HealthCheckTimeoutSeconds |-> HealthCheckTimeoutSeconds,
      HealthyThresholdCount |-> HealthyThresholdCount,
      Port |-> options[c].ContainerPort,
      Protocol |-> "HTTP",
      TargetType |-> "ip",
      UnhealthyThresholdCount |-> UnhealthyThresholdCount,
      VpcId |-> options[c].VpcId ])

\* const listener = createElasticLoadBalancingV2Listener(...)
listenerRefs ==
  [ TargetGroupArn |-> Ref("targetGroup"),
    LoadBalancerArn |-> Ref("loadBalancer") ]
listener(c) ==
  createElasticLoadBalancingV2Listener(
    name[c] \o "Listener",
    [ DefaultActions |->
        << [ TargetGroupArn |-> Resolve(c, listenerRefs.TargetGroupArn),
             Type |-> "forward" ] >>,
      LoadBalancerArn |-> Resolve(c, listenerRefs.LoadBalancerArn),
      Port |-> ListenerPort,
      Protocol |-> "HTTPS",
      Certificates |->
        << [ CertificateArn |-> options[c].CertificateArn ] >> ])

\* const service = createECSService(...)
serviceRefs ==
  [ Cluster |-> Ref("cluster"),
    SecurityGroups |-> Ref("containerSecurityGroup"),
    TaskDefinition |-> Ref("task"),
    TargetGroupArn |-> Ref("targetGroup") ]
service(c) ==
  createECSService(
    name[c] \o "Service",
    [ Cluster |-> Resolve(c, serviceRefs.Cluster),
      LaunchType |-> "FARGATE",
      DeploymentConfiguration |->
        [ MaximumPercent |-> MaximumPercent,
          MinimumHealthyPercent |-> MinimumHealthyPercent ],
      DesiredCount |->
        OrNumber(options[c], "DesiredCount", DefaultDesiredCount),
      NetworkConfiguration |->
        [ AwsvpcConfiguration |->
            [ SecurityGroups |-> << Resolve(c, serviceRefs.SecurityGroups) >>,
              Subnets |-> options[c].PrivateSubnets ] ],
      TaskDefinition |-> Resolve(c, serviceRefs.TaskDefinition),
      LoadBalancers |->
        << [ ContainerName |-> options[c].ServiceName,
             ContainerPort |-> options[c].ContainerPort,
             TargetGroupArn |-> Resolve(c, serviceRefs.TargetGroupArn) ] >> ])

\* Mutant: the arguments of dependsOn swapped.
dependsOnArgs_swapped == << "listener", "service" >>

\* dependsOn(service, listener): <<dependent, dependency>>
dependsOnArgs == << "service", "listener" >>

\* Mutant: both alias fields read the same attribute.
recordsetRefs_sameAttribute ==
  [ HostedZoneId |-> Att("loadBalancer", "CanonicalHostedZoneID"),
    DNSName |-> Att("loadBalancer", "CanonicalHostedZoneID") ]

\* const recordset = createRoute53RecordSet(...)
recordsetRefs ==
  [ HostedZoneId |-> Att("loadBalancer", "CanonicalHostedZoneID"),
    DNSName |-> Att("loadBalancer", "DNSName") ]
recordset(c) ==
  createRoute53RecordSet(
    name[c] \o "RecordSet",
    [ Name |-> options[c].DomainName,
      Type |-> "A",
      HostedZoneName |-> options[c].ZoneName,
      AliasTarget |->
        [ HostedZoneId |-> Resolve(c, recordsetRefs.HostedZoneId),
          DNSName |-> Resolve(c, recordsetRefs.DNSName),
          EvaluateTargetHealth |-> TRUE ] ])

\* return { cluster, containerSecurityGroup, ... }
Returned(c) ==
  [ cluster                   |-> Local(c, "cluster"),
    containerSecurityGroup    |-> Local(c, "containerSecurityGroup"),
    loadBalancerSecurityGroup |-> Local(c, "loadBalancerSecurityGroup"),
    albIngress                |-> Local(c, "albIngress"),
    selfIngress               |-> Local(c, "selfIngress"),
    loadBalancer              |-> Local(c, "loadBalancer"),
    executionRole             |-> Local(c, "executionRole"),
    taskRole                  |-> Local(c, "taskRole"),
    task                      |-> Local(c, "task"),
    targetGroup               |-> Local(c, "targetGroup"),
    service                   |-> Local(c, "service"),
    listener                  |-> Local(c, "listener"),
    logGroup                  |-> Local(c, "logGroup"),
    recordset                 |-> Local(c, "recordset") ]

\* ----------------------------------------------------------------- actions
\* One const declaration: evaluate the reference expressions, build the
\* resource, bind it, go on to the next statement.
Construct(c, role, res, refs, next) ==
  /\ pc[c] = role
  /\ locals' = [locals EXCEPT ![c] = (role :> res) @@ @]
  /\ built' = [built EXCEPT ![c] = Append(@, role)]
  /\ refLog' = refLog \cup LogOf(c, role, refs)
  /\ pc' = [pc EXCEPT ![c] = next]
  /\ UNCHANGED <<name, options, result>>

ConstructCluster(c) ==
  Construct(c, "cluster", cluster(c), <<>>, "containerSecurityGroup")
ConstructContainerSecurityGroup(c) ==
  Construct(c, "containerSecurityGroup", containerSecurityGroup(c), <<>>,
            "loadBalancerSecurityGroup")
ConstructLoadBalancerSecurityGroup(c) ==
  Construct(c, "loadBalancerSecurityGroup", loadBalancerSecurityGroup(c),
            <<>>, "albIngress")
ConstructAlbIngress(c) ==
  Construct(c, "albIngress", albIngress(c), albIngressRefs, "selfIngress")
ConstructSelfIngress(c) ==
  Construct(c, "selfIngress", selfIngress(c), selfIngressRefs, "loadBalancer")
ConstructLoadBalancer(c) ==
  Construct(c, "loadBalancer", loadBalancer(c), loadBalancerRefs,
            "executionRole")
ConstructExecutionRole(c) ==
  Construct(c, "executionRole", executionRole(c), <<>>, "taskRole")
ConstructTaskRole(c) ==
  Construct(c, "taskRole", taskRole(c), <<>>, "logGroup")
ConstructLogGroup(c) ==
  Construct(c, "logGroup", logGroup(c), <<>>, "task")
ConstructTask(c) ==
  Construct(c, "task", task(c), taskRefs, "targetGroup")
ConstructTargetGroup(c) ==
  Construct(c, "targetGroup", targetGroup(c), <<>>, "listener")
ConstructListener(c) ==
  Construct(c, "listener", listener(c), listenerRefs, "service")
ConstructService(c) ==
  Construct(c, "service", service(c), serviceRefs, "dependsOn")

\* dependsOn(service, listener): the dependent resource is updated in place.
DependsOn(c) ==
  /\ pc[c] = "dependsOn"
  /\ locals' = [locals EXCEPT ![c] =
       (dependsOnArgs[1] :> dependsOn(Local(c, dependsOnArgs[1]),
                                      Local(c, dependsOnArgs[2]))) @@ @]
  /\ refLog' = refLog \cup
       { Logged(c, dependsOnArgs[1], "DependsOn",
                <<"DependsOn", dependsOnArgs[2], "">>) }
  /\ pc' = [pc EXCEPT ![c] = "recordset"]
  /\ UNCHANGED <<name, options, built, result>>

ConstructRecordset(c) ==
  Construct(c, "recordset", recordset(c), recordsetRefs, "return")

Return(c) ==
  /\ pc[c] = "return"
  /\ result' = [result EXCEPT ![c] = Returned(c)]
  /\ pc' = [pc EXCEPT ![c] = "done"]
  /\ UNCHANGED <<name, options, locals, built, refLog>>

\* ------------------------------------------------------------ specification
\* One invocation on its own, over every options record.
InitSingle ==
  /\ pc = [c \in Calls |-> IF c = 1 THEN "cluster" ELSE "idle"]
  /\ \E n \in Prefixes : name = [c \in Calls |-> IF c = 1 THEN n ELSE "Api"]
  /\ \E o \in FargateDeploymentOptions :
       options = [c \in Calls |-> IF c = 1 THEN o ELSE BareOptions]

\* Every invocation running, their statements interleaved.  Invocations
\* are interchangeable, so their arguments are drawn in non-decreasing
\* order of ConcurrentArguments.
ConcurrentArguments ==
  << <<"Api", BareOptions>>, <<"Api", FullOptions>>,
     <<"Web", BareOptions>>, <<"Web", FullOptions>> >>
InitConcurrent ==
  /\ pc = [c \in Calls |-> "cluster"]
  /\ \E a \in [Calls -> DOMAIN ConcurrentArguments] :
       /\ \A c, d \in Calls : c < d => a[c] <= a[d]
       /\ name = [c \in Calls |-> ConcurrentArguments[a[c]][1]]
       /\ options = [c \in Calls |-> ConcurrentArguments[a[c]][2]]

Init ==
  /\ InitSingle \/ InitConcurrent
  /\ locals = [c \in Calls |-> EmptyRecord]
  /\ built = [c \in Calls |-> <<>>]
  /\ refLog = {}
  /\ result = [c \in Calls |-> EmptyRecord]

Step(c) ==
  \/ ConstructCluster(c)
  \/ ConstructContainerSecurityGroup(c)
  \/ ConstructLoadBalancerSecurityGroup(c)
  \/ ConstructAlbIngress(c)
  \/ ConstructSelfIngress(c)
  \/ ConstructLoadBalancer(c)
  \/ ConstructExecutionRole(c)
  \/ ConstructTaskRole(c)
  \/ ConstructLogGroup(c)
  \/ ConstructTask(c)
  \/ ConstructTargetGroup(c)
  \/ ConstructListener(c)
  \/ ConstructService(c)
  \/ DependsOn(c)
  \/ ConstructRecordset(c)
  \/ Return(c)

Next == \E c \in Calls : Step(c)

Spec == Init /\ [][Next]_vars

\* ================================================================== claims
Done(c) == pc[c] = "done"
Range(f) == { f[i] : i \in DOMAIN f }
\* The position of a role in the construction order, 0 when not yet built.
Position(c, role) ==
  IF role \in Range(built[c])
    THEN CHOOSE i \in DOMAIN built[c] : built[c][i] = role
    ELSE 0

RoleSuffix ==
  [ cluster                   |-> "Cluster",
    containerSecurityGroup    |-> "ContainerSecurityGroup",
    loadBalancerSecurityGroup |-> "LoadBalancerSecurityGroup",
    albIngress                |-> "ALBIngress",
    selfIngress               |-> "SelfIngress",
    loadBalancer              |-> "LoadBalancer",
    executionRole             |-> "ExecutionRole",
    taskRole                  |-> "TaskRole",
    logGroup                  |-> "LogGroup",
    task                      |-> "Task",
    targetGroup               |-> "TargetGroup",
    listener                  |-> "Listener",
    service                   |-> "Service",
    recordset                 |-> "RecordSet" ]
Roles == DOMAIN RoleSuffix

\* C1: every call returns exactly fourteen resources, one per role; the
\* logical name of each is the prefix followed by the role's fixed suffix,
\* and the fourteen logical names of one call are pairwise distinct.
C1_LogicalNames ==
  \A c \in Calls : Done(c) =>
    /\ DOMAIN result[c] = Roles
    /\ Cardinality(DOMAIN result[c]) = 14
    /\ \A r \in Roles : result[c][r].Name = name[c] \o RoleSuffix[r]
    /\ \A r1, r2 \in Roles :
         r1 # r2 => result[c][r1].Name # result[c][r2].Name

C1_Witness == \E c \in Calls : Done(c) /\ name[c] = "Web"

\* C2 (as claimed): the service's DesiredCount is the caller's DesiredCount
\* whenever one is supplied, 0 included, and 2 only when it is omitted.
C2_DesiredCountAsSupplied ==
  \A c \in Calls : Done(c) =>
    result[c].service.Properties.DesiredCount =
      IF Has(options[c], "DesiredCount") THEN options[c].DesiredCount ELSE 2

\* C3 (as claimed): the target group's HealthCheckPath is the caller's
\* HealthCheckUrl whenever one is supplied, "" included, and "/" only when
\* it is omitted; interval 10, timeout 5, thresholds 2 and 2, protocol
\* HTTP, target type "ip" and Port = ContainerPort for every input.
C3_HealthCheckAsSupplied ==
  \A c \in Calls : Done(c) =>
    LET p == result[c].targetGroup.Properties IN
    /\ p.HealthCheckPath =
         IF Has(options[c], "HealthCheckUrl")
           THEN options[c].HealthCheckUrl ELSE "/"
    /\ p.HealthCheckIntervalSeconds = 10
    /\ p.HealthCheckTimeoutSeconds = 5
    /\ p.HealthyThresholdCount = 2
    /\ p.UnhealthyThresholdCount = 2
    /\ p.HealthCheckProtocol = "HTTP"
    /\ p.TargetType = "ip"
    /\ p.Port = options[c].ContainerPort

\* The cluster's settings list; a property bag without one has no settings.
ClusterSettingsOf(r) ==
  IF "ClusterSettings" \in DOMAIN r.Properties
    THEN r.Properties.ClusterSettings ELSE <<>>

\* C4: with EnableContainerInsights true the cluster's settings hold a
\* containerInsights = enabled entry; with it false or omitted the cluster
\* has no settings at all.
C4_ContainerInsights ==
  \A c \in Calls : Done(c) =>
    LET s == ClusterSettingsOf(result[c].cluster) IN
    IF Has(options[c], "EnableContainerInsights")
         /\ options[c].EnableContainerInsights
      THEN [ Name |-> "containerInsights", Value |-> "enabled" ] \in Range(s)
      ELSE s = <<>>

C4_Witness ==
  \E c, d \in Calls :
    /\ Done(c) /\ Done(d)
    /\ Has(options[c], "EnableContainerInsights")
    /\ options[c].EnableContainerInsights
    /\ Len(ClusterSettingsOf(result[c].cluster)) = 1
    /\ ~Has(options[d], "EnableContainerInsights")

C4_WitnessFalse ==
  \E c \in Calls :
    /\ Done(c)
    /\ Has(options[c], "EnableContainerInsights")
    /\ ~options[c].EnableContainerInsights

\* The dependency edges invocation c has recorded.
Edges(c) == { e \in refLog : e.call = c /\ e.kind = "DependsOn" }
AfterDependsOn(c) == pc[c] \in {"recordset", "return", "done"}

\* C5: a call records exactly one dependency edge, from its service to the
\* listener of the same call, and only once both are constructed; no other
\* resource of the result carries an edge.
C5_DependencyEdge ==
  \A c \in Calls :
    /\ \A e \in Edges(c) :
         /\ e.holder = "service"
         /\ e.target = <<c, "listener">>
         /\ 0 < Position(c, "service") /\ Position(c, "service") <= e.at
         /\ 0 < Position(c, "listener") /\ Position(c, "listener") <= e.at
    /\ AfterDependsOn(c) =>
         /\ Cardinality(Edges(c)) = 1
         /\ locals[c].service.DependsOn = << locals[c].listener.Name >>
    /\ ~AfterDependsOn(c) =>
         /\ Edges(c) = {}
         /\ \A r \in DOMAIN locals[c] : locals[c][r].DependsOn = <<>>
    /\ Done(c) =>
         /\ result[c].service.DependsOn = << result[c].listener.Name >>
         /\ \A r \in Roles \ {"service"} : result[c][r].DependsOn = <<>>

C5_Witness ==
  \E c, d \in Calls :
    /\ c # d /\ name[c] = name[d]
    /\ Done(c) /\ pc[d] = "recordset"
    /\ Cardinality(Edges(c)) = 1 /\ Cardinality(Edges(d)) = 1

\* C6: the DNS record is a type A alias under DomainName / ZoneName whose
\* HostedZoneId and DNSName are the CanonicalHostedZoneID and DNSName
\* attributes of the load balancer of the same call, with target-health
\* evaluation enabled.
C6_AliasTarget ==
  \A c \in Calls : Done(c) =>
    LET p == result[c].recordset.Properties
        lb == result[c].loadBalancer
        log == { e \in refLog : e.call = c /\ e.holder = "recordset" }
    IN
    /\ p.Type = "A"
    /\ p.Name = options[c].DomainName
    /\ p.HostedZoneName = options[c].ZoneName
    /\ p.AliasTarget.EvaluateTargetHealth = TRUE
    /\ p.AliasTarget.HostedZoneId =
         [ GetAtt |-> << lb.Name, "CanonicalHostedZoneID" >> ]
    /\ p.AliasTarget.DNSName = [ GetAtt |-> << lb.Name, "DNSName" >> ]
    /\ lb.Type = "AWS::ElasticLoadBalancingV2::LoadBalancer"
    /\ lb = locals[c].loadBalancer
    /\ { <<e.field, e.kind, e.target, e.attr>> : e \in log } =
         { << "HostedZoneId", "GetAtt", <<c, "loadBalancer">>,
              "CanonicalHostedZoneID" >>,
           << "DNSName", "GetAtt", <<c, "loadBalancer">>, "DNSName" >> }

C6_Witness ==
  \E c, d \in Calls :
    /\ c # d /\ Done(c) /\ Done(d) /\ name[c] # name[d]
    /\ result[c].recordset.Properties.AliasTarget.DNSName
         # result[d].recordset.Properties.AliasTarget.DNSName

\* The number of reference expressions in the source of each statement.
ReferenceCount ==
  [ albIngress |-> 2, selfIngress |-> 2, loadBalancer |-> 1, task |-> 3,
    listener |-> 2, service |-> 4, recordset |-> 2 ]

\* C7: with the construction of each resource as one step, at every step
\* every getRef / getAttribute placed in a resource's properties, and the
\* dependsOn edge, points to a resource constructed earlier in the same
\* call, never to one not yet constructed or to one of another call; every
\* reference expression of a constructed resource has been evaluated, and
\* every referenced resource is among the fourteen returned.
C7_ReferencesPointBackwards ==
  /\ \A e \in refLog :
       /\ e.target[1] = e.call
       /\ 0 < Position(e.call, e.target[2])
       /\ Position(e.call, e.target[2]) <= e.at
       /\ Position(e.call, e.target[2]) < Position(e.call, e.holder)
            \/ e.kind = "DependsOn"
       /\ e.kind # "DependsOn" => Position(e.call, e.holder) = e.at + 1
       /\ e.target[2] # e.holder
       /\ Done(e.call) =>
            /\ e.target[2] \in DOMAIN result[e.call]
            /\ result[e.call][e.target[2]] = locals[e.call][e.target[2]]
  /\ \A c \in Calls : \A r \in DOMAIN ReferenceCount :
       r \in Range(built[c]) =>
         Cardinality({ e \in refLog : /\ e.call = c /\ e.holder = r
                                      /\ e.kind # "DependsOn" })
           = ReferenceCount[r]

C7_Witness ==
  \E c, d \in Calls :
    /\ c # d
    /\ pc[c] = "service" /\ pc[d] = "task"
    /\ \E e \in refLog : e.call = c /\ e.holder = "listener"
    /\ \E e \in refLog : e.call = d /\ e.holder = "loadBalancer"

\* The properties of each role whose value is derived from the prefix: a
\* reference to another resource of the call, or the prefix itself.
PrefixDerived ==
  [ r \in Roles |->
      CASE r = "albIngress"   -> {"GroupId", "SourceSecurityGroupId"}
        [] r = "selfIngress"  -> {"GroupId", "SourceSecurityGroupId"}
        [] r = "loadBalancer" -> {"SecurityGroups"}
        [] r = "logGroup"     -> {"LogGroupName"}
        [] r = "task"         -> {"ExecutionRoleArn", "TaskRoleArn", "LogGroup"}
        [] r = "listener"     -> {"DefaultActions", "LoadBalancerArn"}
        [] r = "service"      -> {"Cluster", "NetworkConfiguration",
                                  "TaskDefinition", "LoadBalancers"}
        [] r = "recordset"    -> {"AliasTarget"}
        [] OTHER              -> {} ]

C8_WitnessDistinct ==
  \E c, d \in Calls :
    /\ c # d /\ Done(c) /\ Done(d)
    /\ name[c] # name[d] /\ options[c] = options[d]

\* C9 (as claimed): the log group's logical name equals its LogGroupName
\* property.
C9_LogicalNameIsLogGroupName ==
  \A c \in Calls : Done(c) =>
    result[c].logGroup.Name = result[c].logGroup.Properties.LogGroupName

\* C9 (amended): the log group's logical name is the prefixed id
\* `${name}LogGroup`, as for every other resource; its only property,
\* LogGroupName, is the bare name argument, so the two differ.
C9_LogGroupName ==
  \A c \in Calls : Done(c) =>
    LET lg == result[c].logGroup IN
    /\ lg.Name = name[c] \o "LogGroup"
    /\ lg.Properties = [ LogGroupName |-> name[c] ]
    /\ lg.Name # lg.Properties.LogGroupName

C9_Witness ==
  \E c \in Calls :
    /\ Done(c)
    /\ result[c].logGroup.Name = "WebLogGroup"
    /\ result[c].logGroup.Properties.LogGroupName = "Web"

\* C10: within one call the listener's single default action forwards to
\* the target group the service's single registration names; the target
\* group's Port and the registration's ContainerPort are the ContainerPort
\* option; the listener is attached to the load balancer, which carries the
\* load-balancer security group; the service runs in the container security
\* group, whose only ingress rules are the ALB ingress (from the
\* load-balancer security group) and the self ingress (from itself).
C10_TrafficPath ==
  \A c \in Calls : Done(c) =>
    LET R == result[c]
        tg == [ Ref |-> R.targetGroup.Name ]
        lb == [ Ref |-> R.loadBalancer.Name ]
        csg == [ Ref |-> R.containerSecurityGroup.Name ]
        lbsg == [ Ref |-> R.loadBalancerSecurityGroup.Name ]
    IN
    /\ R.listener.Properties.DefaultActions =
         << [ TargetGroupArn |-> tg, Type |-> "forward" ] >>
    /\ Len(R.service.Properties.LoadBalancers) = 1
    /\ R.service.Properties.LoadBalancers[1].TargetGroupArn = tg
    /\ R.service.Properties.LoadBalancers[1].ContainerPort
         = options[c].ContainerPort
    /\ R.targetGroup.Properties.Port = options[c].ContainerPort
    /\ R.listener.Properties.LoadBalancerArn = lb
    /\ R.loadBalancer.Properties.SecurityGroups = << lbsg >>
    /\ R.service.Properties.NetworkConfiguration.AwsvpcConfiguration
         .SecurityGroups = << csg >>
    /\ "SecurityGroupIngress" \notin DOMAIN R.containerSecurityGroup.Properties
    /\ { r \in Roles : R[r].Type = "AWS::EC2::SecurityGroupIngress" }
         = { "albIngress", "selfIngress" }
    /\ R.albIngress.Properties.GroupId = csg
    /\ R.albIngress.Properties.SourceSecurityGroupId = lbsg
    /\ R.selfIngress.Properties.GroupId = csg
    /\ R.selfIngress.Properties.SourceSecurityGroupId = csg
    /\ csg # lbsg /\ tg # lb

C10_Witness ==
  \E c \in Calls :
    /\ Done(c)
    /\ options[c].ContainerPort = 80
    /\ result[c].targetGroup.Properties.Port = 80
    /\ result[c].service.Properties.LoadBalancers[1].ContainerPort = 80

====
